---- MODULE Spec2Model ----
(***************************************************************************)
(* Model of vertex_color_master/vcm_compat.py: the Blender version         *)
(* compatibility layer of Vertex Color Master.                             *)
(*                                                                         *)
(* The module is a set of free functions that dispatch on flags computed   *)
(* once from bpy.app.version.  The host objects they forward to (a mesh,   *)
(* its vertex_colors / color_attributes collection, the BMesh loop layers) *)
(* are modelled by the Host* operators below.                              *)
(*                                                                         *)
(* A mesh is a record                                                      *)
(*    layers          the color layers, in host order; each layer is       *)
(*                    [name, type, data] with data a color per loop        *)
(*    active          the name of the active color layer, or None          *)
(*    use_auto_smooth the mesh's auto-smooth setting                       *)
(* A layer handle (a host object in the code) is modelled by the layer's   *)
(* name, which the host keeps unique within a mesh.                        *)
(***************************************************************************)
EXTENDS Integers, Sequences, FiniteSets, TLC

VARIABLES
    flags,      \* the module-scope version flags
    mesh,       \* the host's mesh
    lastOp,     \* the function called last
    args,       \* its arguments (the mesh or bmesh argument left out)
    ret,        \* the value it returned
    accessed,   \* the mesh layer collections the module has touched so far
    flagsL, meshL, retL,    \* paired run: a host before 3.2
    flagsN, meshN, retN,    \* paired run: a host from 3.2 on
    pairOp, pairArgs        \* paired run: the call made on both hosts

vars == <<flags, mesh, lastOp, args, ret, accessed,
          flagsL, meshL, retL, flagsN, meshN, retN, pairOp, pairArgs>>

singleVars == <<flags, mesh, lastOp, args, ret, accessed>>
pairVars == <<flagsL, meshL, retL, flagsN, meshN, retN, pairOp, pairArgs>>

----------------------------------------------------------------------------
(* Bounds of the model *)

MaxLayers == 2

(* loop (face corner) indices callers pass *)
LoopIndices == { 0 }

(* bpy.app.version values the model loads the module under *)
Versions == { <<2, 93, 0>>, <<3, 1, 0>>, <<3, 2, 0>>, <<4, 1, 0>>, <<5, 0, 0>> }

(* layer names callers pass *)
ArgNames == { "A" }

(* [R, G, B, A] colors callers pass *)
White == <<1, 1, 1, 1>>
Black == <<0, 0, 0, 1>>
Colors == { White, Black }

(* Python's None, for a layer handle or a name *)
None == "None"

----------------------------------------------------------------------------
(* Version detection *)

(* a slip: the tuples compared component by component *)
TupleGEComponentwise(a, b) ==
    a[1] >= b[1] /\ a[2] >= b[2] /\ a[3] >= b[3]

(* Python's >= on two 3-tuples of ints: lexicographic order *)
TupleGE(a, b) ==
    \/ a[1] > b[1]
    \/ a[1] = b[1] /\ a[2] > b[2]
    \/ a[1] = b[1] /\ a[2] = b[2] /\ a[3] >= b[3]

(* the module-scope flags, computed when the module is loaded *)
ModuleLoad(version) ==
    [ BLENDER_VERSION      |-> version,
      BLENDER_3_2          |-> TupleGE(version, <<3, 2, 0>>),
      BLENDER_4_0          |-> TupleGE(version, <<4, 0, 0>>),
      BLENDER_4_1          |-> TupleGE(version, <<4, 1, 0>>),
      BLENDER_5_0          |-> TupleGE(version, <<5, 0, 0>>),
      USE_COLOR_ATTRIBUTES |-> TupleGE(version, <<3, 2, 0>>) ]

----------------------------------------------------------------------------
(* Host objects *)

(* result of one call: the host state after it, the value returned and the
   mesh layer collections (vertex_colors, color_attributes) the call touched *)
Res(m, r, api) == [ mesh |-> m, ret |-> r, api |-> api ]

LayerNames(m) == { m.layers[i].name : i \in DOMAIN m.layers }

IndexOf(layers, name) ==
    CHOOSE i \in DOMAIN layers : layers[i].name = name

LayerOf(m, name) == m.layers[IndexOf(m.layers, name)]

RemoveAt(s, i) ==
    [ j \in 1 .. (Len(s) - 1) |-> IF j < i THEN s[j] ELSE s[j + 1] ]

Suffixes == << ".001", ".002", ".003", ".004", ".005", ".006", ".007", ".008" >>

(* the host makes the name of a new layer unique within the mesh *)
HostUniqueName(name, used) ==
    IF name \notin used THEN name
    ELSE LET k == CHOOSE i \in DOMAIN Suffixes :
                     /\ (name \o Suffixes[i]) \notin used
                     /\ \A j \in 1 .. (i - 1) : (name \o Suffixes[j]) \in used
         IN  name \o Suffixes[k]

HostNewLayer(name, type) ==
    [ name |-> name, type |-> type, data |-> [ i \in LoopIndices |-> White ] ]

(* mesh.vertex_colors.new(name): appends a layer; the first layer of a mesh
   becomes active, later ones leave the active layer alone.  (The host
   refuses a ninth layer; MaxLayers keeps the model below that.) *)
HostVertexColorsNew(m, name) ==
    LET n == HostUniqueName(name, LayerNames(m))
    IN  Res([ m EXCEPT !.layers = Append(@, HostNewLayer(n, "BYTE_COLOR")),
                       !.active = IF @ = None THEN n ELSE @ ],
            n, {"vertex_colors"})

(* mesh.color_attributes.new(name, type, domain='CORNER'): appends an
   attribute; it becomes the active color only if the mesh has none *)
HostColorAttributesNew(m, name, type) ==
    LET n == HostUniqueName(name, LayerNames(m))
    IN  Res([ m EXCEPT !.layers = Append(@, HostNewLayer(n, type)),
                       !.active = IF @ = None THEN n ELSE @ ],
            n, {"color_attributes"})

(* mesh.vertex_colors.remove(vcol): the active layer is an index into the
   layers, which the host decrements when it is at or past the removed
   position (and not 0), so some layer is active while any remains *)
HostVertexColorsRemove(m, name) ==
    LET n    == IndexOf(m.layers, name) - 1
        a    == IndexOf(m.layers, m.active) - 1
        rest == RemoveAt(m.layers, n + 1)
        nz   == IF n = 0 THEN 1 ELSE n
        a2   == IF a >= nz THEN a - 1 ELSE a
    IN  Res([ m EXCEPT !.layers = rest,
                       !.active = IF Len(rest) = 0 THEN None
                                  ELSE rest[a2 + 1].name ],
            None, {"vertex_colors"})

(* mesh.color_attributes.remove(vcol): the active color is kept by name;
   when the active attribute is removed, the attribute that takes its
   position becomes active, and none if it was the last in the list *)
HostColorAttributesRemove(m, name) ==
    LET i    == IndexOf(m.layers, name)
        rest == RemoveAt(m.layers, i)
    IN  Res([ m EXCEPT !.layers = rest,
                       !.active = IF @ # name THEN @
                                  ELSE IF i <= Len(rest) THEN rest[i].name
                                  ELSE None ],
            None, {"color_attributes"})

(* the names of the BMesh loop layers of one storage type, in host order *)
HostBMeshLayers(m, type) ==
    SelectSeq(m.layers, LAMBDA l : l.type = type)

HostBMeshNames(m, type) ==
    { m.layers[i].name : i \in { j \in DOMAIN m.layers : m.layers[j].type = type } }

(* bm.loops.layers.color.active under the legacy API: the layer
   mesh.vertex_colors.active names *)
HostBMeshActiveLegacy(m) == m.active

(* bm.loops.layers.<type>.active under the color-attribute API: the active
   index the host keeps per storage type, which starts at the first layer of
   the type and which mesh.color_attributes.active_color does not move *)
HostBMeshActive(m, type) ==
    LET ls == HostBMeshLayers(m, type)
    IN  IF Len(ls) = 0 THEN None ELSE ls[1].name

----------------------------------------------------------------------------
(* Shader compatibility *)

get_shader_builtin(F, m, name) ==
    IF F.BLENDER_4_0
    THEN Res(m, name, {})
    ELSE Res(m, "2D_" \o name, {})

----------------------------------------------------------------------------
(* Vertex color layer access *)

get_vertex_colors(F, m) ==
    IF F.USE_COLOR_ATTRIBUTES
    THEN Res(m, m.layers, {"color_attributes"})
    ELSE Res(m, m.layers, {"vertex_colors"})

get_active_vcol(F, m) ==
    IF F.USE_COLOR_ATTRIBUTES
    THEN IF Len(m.layers) > 0
         THEN Res(m, m.active, {"color_attributes"})
         ELSE Res(m, None, {"color_attributes"})
    ELSE IF Len(m.layers) > 0
         THEN Res(m, m.active, {"vertex_colors"})
         ELSE Res(m, None, {"vertex_colors"})

set_active_vcol(F, m, vcol) ==
    IF F.USE_COLOR_ATTRIBUTES
    THEN Res([ m EXCEPT !.active = vcol ], None, {"color_attributes"})
    ELSE Res([ m EXCEPT !.active = vcol ], None, {"vertex_colors"})

create_vcol(F, m, name) ==
    IF F.USE_COLOR_ATTRIBUTES
    THEN IF name # None
         THEN HostColorAttributesNew(m, name, "BYTE_COLOR")
         ELSE HostColorAttributesNew(m, "Color", "BYTE_COLOR")
    ELSE IF name # None
         THEN HostVertexColorsNew(m, name)
         ELSE HostVertexColorsNew(m, "Col")

remove_vcol(F, m, vcol) ==
    IF F.USE_COLOR_ATTRIBUTES
    THEN HostColorAttributesRemove(m, vcol)
    ELSE HostVertexColorsRemove(m, vcol)

vcol_exists(F, m, name) ==
    LET vcols == get_vertex_colors(F, m)
    IN  Res(m, name \in LayerNames(m), vcols.api)

(* a slip: a lookup that creates the layer it does not find *)
get_vcol_by_name_creates(F, m, name) ==
    LET vcols == get_vertex_colors(F, m)
    IN  IF name \in LayerNames(m)
        THEN Res(m, name, vcols.api)
        ELSE create_vcol(F, m, name)

get_vcol_by_name(F, m, name) ==
    LET vcols == get_vertex_colors(F, m)
    IN  IF name \in LayerNames(m)
        THEN Res(m, name, vcols.api)
        ELSE Res(m, None, vcols.api)

get_vcol_count(F, m) ==
    LET vcols == get_vertex_colors(F, m)
    IN  Res(m, Len(vcols.ret), vcols.api)

has_vertex_colors(F, m) ==
    LET c == get_vcol_count(F, m)
    IN  Res(m, c.ret > 0, c.api)

(* a slip: the layer is created without looking for an active one *)
get_or_create_vcol_always_creates(F, m) ==
    LET created == create_vcol(F, m, None)
        act     == set_active_vcol(F, created.mesh, created.ret)
    IN  Res(act.mesh, created.ret, created.api \cup act.api)

(* a slip: the created layer is made active but not returned *)
get_or_create_vcol_stale(F, m) ==
    LET vcol == get_active_vcol(F, m)
    IN  IF vcol.ret = None
        THEN LET created == create_vcol(F, m, None)
                 act     == set_active_vcol(F, created.mesh, created.ret)
             IN  Res(act.mesh, vcol.ret, vcol.api \cup created.api \cup act.api)
        ELSE vcol

get_or_create_vcol(F, m) ==
    LET vcol == get_active_vcol(F, m)
    IN  IF vcol.ret = None
        THEN LET created == create_vcol(F, m, None)
                 act     == set_active_vcol(F, created.mesh, created.ret)
             IN  Res(act.mesh, created.ret, vcol.api \cup created.api \cup act.api)
        ELSE vcol

iter_vertex_colors(F, m) ==
    LET vcols == get_vertex_colors(F, m)
    IN  Res(m, [ i \in DOMAIN vcols.ret |-> vcols.ret[i].name ], vcols.api)

----------------------------------------------------------------------------
(* Mesh compatibility *)

set_auto_smooth(F, m, enabled) ==
    IF ~F.BLENDER_4_1
    THEN Res([ m EXCEPT !.use_auto_smooth = enabled ], None, {})
    ELSE Res(m, None, {})

has_auto_smooth(F, m) ==
    IF F.BLENDER_4_1
    THEN Res(m, TRUE, {})
    ELSE Res(m, m.use_auto_smooth, {})

----------------------------------------------------------------------------
(* BMesh color layer access *)

get_bmesh_color_layer(F, m, vcol_name) ==
    IF F.USE_COLOR_ATTRIBUTES
    THEN IF vcol_name # None
         THEN IF vcol_name \in HostBMeshNames(m, "FLOAT_COLOR")
              THEN Res(m, vcol_name, {})
              ELSE IF vcol_name \in HostBMeshNames(m, "BYTE_COLOR")
              THEN Res(m, vcol_name, {})
              ELSE Res(m, None, {})
         ELSE IF HostBMeshActive(m, "FLOAT_COLOR") # None
              THEN Res(m, HostBMeshActive(m, "FLOAT_COLOR"), {})
              ELSE IF HostBMeshActive(m, "BYTE_COLOR") # None
              THEN Res(m, HostBMeshActive(m, "BYTE_COLOR"), {})
              ELSE Res(m, None, {})
    ELSE IF vcol_name # None /\ vcol_name \in HostBMeshNames(m, "BYTE_COLOR")
         THEN Res(m, vcol_name, {})
         ELSE Res(m, HostBMeshActiveLegacy(m), {})

----------------------------------------------------------------------------
(* Color data access helpers *)

get_vcol_data(m, vcol) ==
    Res(m, LayerOf(m, vcol).data, {})

get_loop_color(m, vcol, loop_index) ==
    Res(m, LayerOf(m, vcol).data[loop_index], {})

set_loop_color(m, vcol, loop_index, color) ==
    Res([ m EXCEPT !.layers[IndexOf(m.layers, vcol)].data[loop_index] = color ],
        None, {})

----------------------------------------------------------------------------
(* One run of the addon against one host *)

EmptyMesh == [ layers |-> <<>>, active |-> None, use_auto_smooth |-> FALSE ]

NameArgs == ArgNames \cup {None}

ShaderNames == { "SMOOTH_COLOR" }

PairIdle ==
    /\ flagsL = ModuleLoad(<<2, 93, 0>>)
    /\ flagsN = ModuleLoad(<<5, 0, 0>>)
    /\ meshL = EmptyMesh
    /\ meshN = EmptyMesh
    /\ retL = None
    /\ retN = None
    /\ pairOp = "load"
    /\ pairArgs = <<>>

Init ==
    /\ \E v \in Versions : flags = ModuleLoad(v)
    /\ mesh = EmptyMesh
    /\ lastOp = "load"
    /\ args = <<>>
    /\ ret = None
    /\ accessed = {}
    /\ PairIdle

(* a call returns: the host holds the call's effect, the caller its result *)
Do(op, a, r) ==
    /\ mesh' = r.mesh
    /\ lastOp' = op
    /\ args' = a
    /\ ret' = r.ret
    /\ accessed' = accessed \cup r.api
    /\ UNCHANGED flags
    /\ UNCHANGED pairVars

GetShaderBuiltin ==
    \E name \in ShaderNames :
        Do("get_shader_builtin", <<name>>, get_shader_builtin(flags, mesh, name))

GetVertexColors ==
    LET r == get_vertex_colors(flags, mesh)
    IN  Do("get_vertex_colors", <<>>, Res(r.mesh, Len(r.ret), r.api))

GetActiveVcol ==
    Do("get_active_vcol", <<>>, get_active_vcol(flags, mesh))

SetActiveVcol ==
    \E vcol \in LayerNames(mesh) :
        Do("set_active_vcol", <<vcol>>, set_active_vcol(flags, mesh, vcol))

CreateVcol ==
    /\ Len(mesh.layers) < MaxLayers
    /\ \E name \in NameArgs :
        Do("create_vcol", <<name>>, create_vcol(flags, mesh, name))

RemoveVcol ==
    \E vcol \in LayerNames(mesh) :
        Do("remove_vcol", <<vcol>>, remove_vcol(flags, mesh, vcol))

VcolExists ==
    \E name \in ArgNames :
        Do("vcol_exists", <<name>>, vcol_exists(flags, mesh, name))

GetVcolByName ==
    \E name \in ArgNames :
        Do("get_vcol_by_name", <<name>>, get_vcol_by_name(flags, mesh, name))

GetVcolCount ==
    Do("get_vcol_count", <<>>, get_vcol_count(flags, mesh))

HasVertexColors ==
    Do("has_vertex_colors", <<>>, has_vertex_colors(flags, mesh))

GetOrCreateVcol ==
    /\ Len(mesh.layers) < MaxLayers \/ get_active_vcol(flags, mesh).ret # None
    /\ Do("get_or_create_vcol", <<>>, get_or_create_vcol(flags, mesh))

IterVertexColors ==
    Do("iter_vertex_colors", <<>>, iter_vertex_colors(flags, mesh))

(* a slip: the setter assigns the module flag as well *)
SetAutoSmoothWritesFlag ==
    \E enabled \in BOOLEAN :
        LET r == set_auto_smooth(flags, mesh, enabled)
        IN  /\ mesh' = r.mesh
            /\ lastOp' = "set_auto_smooth"
            /\ args' = <<enabled>>
            /\ ret' = r.ret
            /\ accessed' = accessed \cup r.api
            /\ flags' = [ flags EXCEPT !.BLENDER_4_1 = enabled ]
            /\ UNCHANGED pairVars

SetAutoSmooth ==
    \E enabled \in BOOLEAN :
        Do("set_auto_smooth", <<enabled>>, set_auto_smooth(flags, mesh, enabled))

HasAutoSmooth ==
    Do("has_auto_smooth", <<>>, has_auto_smooth(flags, mesh))

GetBmeshColorLayer ==
    \E vcol_name \in NameArgs :
        Do("get_bmesh_color_layer", <<vcol_name>>,
           get_bmesh_color_layer(flags, mesh, vcol_name))

GetVcolData ==
    \E vcol \in LayerNames(mesh) :
        Do("get_vcol_data", <<vcol>>, get_vcol_data(mesh, vcol))

GetLoopColor ==
    \E vcol \in LayerNames(mesh) : \E loop_index \in LoopIndices :
        Do("get_loop_color", <<vcol, loop_index>>,
           get_loop_color(mesh, vcol, loop_index))

SetLoopColor ==
    \E vcol \in LayerNames(mesh) : \E loop_index \in LoopIndices :
        \E color \in Colors :
            Do("set_loop_color", <<vcol, loop_index, color>>,
               set_loop_color(mesh, vcol, loop_index, color))

(* the host side (the user, another addon) adds a FLOAT_COLOR attribute "F",
   the storage type the docstring of get_bmesh_color_layer describes *)
HostNewFloatColor ==
    /\ flags.USE_COLOR_ATTRIBUTES
    /\ Len(mesh.layers) < MaxLayers
    /\ "F" \notin LayerNames(mesh)
    /\ LET r == HostColorAttributesNew(mesh, "F", "FLOAT_COLOR")
       IN  /\ mesh' = r.mesh
           /\ lastOp' = "host_new_float_color"
           /\ args' = <<>>
           /\ ret' = None
           /\ UNCHANGED <<flags, accessed>>
           /\ UNCHANGED pairVars

Next ==
    \/ GetShaderBuiltin
    \/ GetVertexColors
    \/ GetActiveVcol
    \/ SetActiveVcol
    \/ CreateVcol
    \/ RemoveVcol
    \/ VcolExists
    \/ GetVcolByName
    \/ GetVcolCount
    \/ HasVertexColors
    \/ GetOrCreateVcol
    \/ IterVertexColors
    \/ SetAutoSmooth
    \/ HasAutoSmooth
    \/ GetBmeshColorLayer
    \/ GetVcolData
    \/ GetLoopColor
    \/ SetLoopColor
    \/ HostNewFloatColor

Spec == Init /\ [][Next]_vars

----------------------------------------------------------------------------
(* The same calls made against two hosts, one on each side of the switch to
   color attributes, from corresponding states *)

SingleIdle ==
    /\ flags = ModuleLoad(<<2, 93, 0>>)
    /\ mesh = EmptyMesh
    /\ lastOp = "load"
    /\ args = <<>>
    /\ ret = None
    /\ accessed = {}

InitPair ==
    /\ \E v \in Versions :
        /\ ~ModuleLoad(v).USE_COLOR_ATTRIBUTES
        /\ flagsL = ModuleLoad(v)
    /\ \E v \in Versions :
        /\ ModuleLoad(v).USE_COLOR_ATTRIBUTES
        /\ flagsN = ModuleLoad(v)
    /\ meshL = EmptyMesh
    /\ meshN = EmptyMesh
    /\ retL = None
    /\ retN = None
    /\ pairOp = "load"
    /\ pairArgs = <<>>
    /\ SingleIdle

PairDo(op, a, rL, rN) ==
    /\ meshL' = rL.mesh
    /\ retL' = rL.ret
    /\ meshN' = rN.mesh
    /\ retN' = rN.ret
    /\ pairOp' = op
    /\ pairArgs' = a
    /\ UNCHANGED <<flagsL, flagsN>>
    /\ UNCHANGED singleVars

(* layer handles valid on both hosts *)
PairLayers == LayerNames(meshL) \cap LayerNames(meshN)

PairGetActiveVcol ==
    PairDo("get_active_vcol", <<>>,
           get_active_vcol(flagsL, meshL), get_active_vcol(flagsN, meshN))

PairSetActiveVcol ==
    \E vcol \in PairLayers :
        PairDo("set_active_vcol", <<vcol>>,
               set_active_vcol(flagsL, meshL, vcol), set_active_vcol(flagsN, meshN, vcol))

PairCreateVcol ==
    /\ Len(meshL.layers) < MaxLayers
    /\ Len(meshN.layers) < MaxLayers
    /\ \E name \in NameArgs :
        PairDo("create_vcol", <<name>>,
               create_vcol(flagsL, meshL, name), create_vcol(flagsN, meshN, name))

PairRemoveVcol ==
    \E vcol \in PairLayers :
        PairDo("remove_vcol", <<vcol>>,
               remove_vcol(flagsL, meshL, vcol), remove_vcol(flagsN, meshN, vcol))

PairVcolExists ==
    \E name \in ArgNames :
        PairDo("vcol_exists", <<name>>,
               vcol_exists(flagsL, meshL, name), vcol_exists(flagsN, meshN, name))

PairGetVcolByName ==
    \E name \in ArgNames :
        PairDo("get_vcol_by_name", <<name>>,
               get_vcol_by_name(flagsL, meshL, name), get_vcol_by_name(flagsN, meshN, name))

PairGetVcolCount ==
    PairDo("get_vcol_count", <<>>,
           get_vcol_count(flagsL, meshL), get_vcol_count(flagsN, meshN))

PairGetOrCreateVcol ==
    /\ Len(meshL.layers) < MaxLayers \/ get_active_vcol(flagsL, meshL).ret # None
    /\ Len(meshN.layers) < MaxLayers \/ get_active_vcol(flagsN, meshN).ret # None
    /\ PairDo("get_or_create_vcol", <<>>,
              get_or_create_vcol(flagsL, meshL), get_or_create_vcol(flagsN, meshN))

PairGetBmeshColorLayer ==
    \E vcol_name \in NameArgs :
        PairDo("get_bmesh_color_layer", <<vcol_name>>,
               get_bmesh_color_layer(flagsL, meshL, vcol_name),
               get_bmesh_color_layer(flagsN, meshN, vcol_name))

PairSetAutoSmooth ==
    \E enabled \in BOOLEAN :
        PairDo("set_auto_smooth", <<enabled>>,
               set_auto_smooth(flagsL, meshL, enabled),
               set_auto_smooth(flagsN, meshN, enabled))

PairHasAutoSmooth ==
    PairDo("has_auto_smooth", <<>>,
           has_auto_smooth(flagsL, meshL), has_auto_smooth(flagsN, meshN))

PairGetLoopColor ==
    \E vcol \in PairLayers : \E loop_index \in LoopIndices :
        PairDo("get_loop_color", <<vcol, loop_index>>,
               get_loop_color(meshL, vcol, loop_index),
               get_loop_color(meshN, vcol, loop_index))

PairSetLoopColor ==
    \E vcol \in PairLayers : \E loop_index \in LoopIndices :
        \E color \in Colors :
            PairDo("set_loop_color", <<vcol, loop_index, color>>,
                   set_loop_color(meshL, vcol, loop_index, color),
                   set_loop_color(meshN, vcol, loop_index, color))

NextPair ==
    \/ PairGetActiveVcol
    \/ PairSetActiveVcol
    \/ PairCreateVcol
    \/ PairRemoveVcol
    \/ PairVcolExists
    \/ PairGetVcolByName
    \/ PairGetVcolCount
    \/ PairGetOrCreateVcol
    \/ PairGetBmeshColorLayer
    \/ PairSetAutoSmooth
    \/ PairHasAutoSmooth
    \/ PairGetLoopColor
    \/ PairSetLoopColor

SpecPair == InitPair /\ [][NextPair]_vars

----------------------------------------------------------------------------
(* Properties *)

(* the host release is 3.2.0 or later, read off the version tuple itself *)
HostHasColorAttributes ==
    LET v == flags.BLENDER_VERSION
    IN  v[1] > 3 \/ (v[1] = 3 /\ v[2] >= 2)

LayerOps ==
    { "get_vertex_colors", "get_active_vcol", "set_active_vcol", "create_vcol",
      "remove_vcol", "vcol_exists", "get_vcol_by_name", "get_vcol_count",
      "has_vertex_colors", "get_or_create_vcol", "iter_vertex_colors" }

QueryOps ==
    { "get_vertex_colors", "get_active_vcol", "vcol_exists", "get_vcol_by_name",
      "get_vcol_count", "has_vertex_colors", "iter_vertex_colors",
      "has_auto_smooth", "get_bmesh_color_layer", "get_vcol_data",
      "get_loop_color" }

(* C1: the same call with the same arguments, made on a host before 3.2 and
   on a host from 3.2 on that were in corresponding states, returns the same
   result on both and leaves the two hosts in corresponding states. *)
C1_SameResultOnBothPaths ==
    pairOp # "load" => (retL = retN /\ meshL = meshN)

(* C2: a layer requested by a name no layer of the mesh carries, through
   get_vcol_by_name or get_bmesh_color_layer, comes back as None and the host
   state is left as it was, on either path. *)
C2_AbsentNameGivesNone ==
    [][ ( /\ lastOp' \in { "get_vcol_by_name", "get_bmesh_color_layer" }
          /\ args'[1] # None
          /\ args'[1] \notin LayerNames(mesh) )
        => (ret' = None /\ mesh' = mesh) ]_vars

(* C3: the layer functions touch mesh.color_attributes exactly on hosts from
   3.2.0 on and mesh.vertex_colors exactly on older ones, and never the
   other collection, over the whole run. *)
C3_OneLayerApiPerVersion ==
    /\ accessed \subseteq ( IF HostHasColorAttributes
                            THEN {"color_attributes"} ELSE {"vertex_colors"} )
    /\ lastOp \in LayerOps => accessed # {}
    /\ flags.USE_COLOR_ATTRIBUTES = HostHasColorAttributes

C3_Witness ==
    /\ flags.BLENDER_VERSION = <<5, 0, 0>>
    /\ lastOp = "remove_vcol"
    /\ accessed = {"color_attributes"}

(* C4: no call writes a version flag: every step leaves BLENDER_VERSION,
   BLENDER_3_2, BLENDER_4_0, BLENDER_4_1, BLENDER_5_0 and
   USE_COLOR_ATTRIBUTES at the values computed at load. *)
C4_FlagsNeverWritten ==
    [][ flags' = flags ]_vars

C4_Witness ==
    /\ lastOp = "set_auto_smooth"
    /\ args = <<TRUE>>
    /\ ~flags.BLENDER_4_1
    /\ mesh.use_auto_smooth
    /\ Len(mesh.layers) = 2

(* C5 as stated: get_or_create_vcol on a mesh that holds a layer leaves the
   number of layers unchanged and returns one of the layers it held. *)
C5_NoCreateWhenLayersExist ==
    [][ (lastOp' = "get_or_create_vcol" /\ Len(mesh.layers) > 0)
        => ( /\ Len(mesh'.layers) = Len(mesh.layers)
             /\ ret' \in LayerNames(mesh) ) ]_vars

(* C5 amended: get_or_create_vcol on a mesh whose host reports an active
   layer leaves the mesh as it was and returns that layer; on the legacy
   path this covers every mesh that holds a layer. *)
C5_NoCreateWhenActiveExists ==
    [][ (lastOp' = "get_or_create_vcol" /\ Len(mesh.layers) > 0)
        => ( /\ mesh.active # None => (mesh' = mesh /\ ret' = mesh.active)
             /\ ~flags.USE_COLOR_ATTRIBUTES
                    => (mesh' = mesh /\ ret' \in LayerNames(mesh)) ) ]_vars

C5_Witness ==
    /\ lastOp = "get_or_create_vcol"
    /\ Len(mesh.layers) = 2
    /\ ret = "A"
    /\ mesh.active = "A"
    /\ mesh.layers[2].name = "A"

(* C6: get_bmesh_color_layer without a name, on the color-attribute path and
   a mesh that holds both FLOAT_COLOR and BYTE_COLOR layers, returns the
   layer the mesh reports as active. *)
C6_BmeshLayerIsActiveLayer ==
    ( /\ lastOp = "get_bmesh_color_layer"
      /\ args = <<None>>
      /\ flags.USE_COLOR_ATTRIBUTES
      /\ HostBMeshNames(mesh, "FLOAT_COLOR") # {}
      /\ HostBMeshNames(mesh, "BYTE_COLOR") # {} )
    => ret = mesh.active

(* C7: what get_or_create_vcol returns is a layer of the mesh and its active
   layer, never None; calling it again at once returns the same layer and
   changes nothing. *)
C7_GetOrCreateGivesActive ==
    /\ [] ( lastOp = "get_or_create_vcol"
            => ( /\ ret # None
                 /\ ret \in LayerNames(mesh)
                 /\ ret = mesh.active ) )
    /\ [][ (lastOp = "get_or_create_vcol" /\ lastOp' = "get_or_create_vcol")
           => (ret' = ret /\ mesh' = mesh) ]_vars

C7_Witness ==
    /\ lastOp = "get_or_create_vcol"
    /\ flags.USE_COLOR_ATTRIBUTES
    /\ Len(mesh.layers) = 2
    /\ ret = "Color"
    /\ mesh.layers[1].name = "A"

(* C8: the query functions leave the mesh's layers, its active layer, its
   auto-smooth setting and every stored color as they were. *)
C8_QueriesChangeNothing ==
    [][ lastOp' \in QueryOps => mesh' = mesh ]_vars

C8_Witness ==
    /\ lastOp = "get_vcol_by_name"
    /\ args = <<"A">>
    /\ ret = None
    /\ Len(mesh.layers) = 2
    /\ mesh.layers[1].data[0] = Black

====
